---- MODULE Spec2Model ----
(***************************************************************************)
(* Live file-state reconciliation and sandbox lifecycle controller of the  *)
(* website builder workspace:                                              *)
(*   - BuilderView (src/components/builder/BuilderView.tsx) owns filesMap   *)
(*     and merges the push channel's slots and tree snapshots into it;     *)
(*   - WebContainerPreview (src/unnamed/part_002, src/unnamed/part_003: two *)
(*     versions of the same component) brings the sandbox up, syncs file   *)
(*     deltas into it and scans process output.                            *)
(* One action is one handler run by the single UI thread: an event with    *)
(* the render and the effects it causes, or the continuation of one await. *)
(***************************************************************************)
EXTENDS Integers, Sequences, FiniteSets, TLC

\* ------------------------------------------------------------------ bounds
MaxEvents == 2
MaxAttempts == 2
MaxCycles == 1
MaxChunks == 3
MaxFetches == 3

\* ------------------------------------------------------- program constants
BufferCap == 2000
KeepLen == 1000

\* ------------------------------------------------------------------- paths
\* A path is the sequence path.split('/') gives: "src/a.js" is <<"src", "a.js">>,
\* "/package.json" is <<"", "package.json">>.
Manifest == <<"package.json">>
SlashManifest == <<"", "package.json">>
SrcA == <<"src", "a.js">>

\* The sandbox resolves a path against its working directory: a leading
\* separator (an empty first component) does not change the file addressed.
FsPath(path) ==
  IF Len(path) > 1 /\ path[1] = "" THEN SubSeq(path, 2, Len(path)) ELSE path

\* parts.slice(0, -1): the parent directory chain of a path.
DirPath(path) == SubSeq(path, 1, Len(path) - 1)

\* ----------------------------------------------- Record<string, string>
EmptyMap == [p \in {} |-> ""]

\* (mutant) the assignment drops every other key.
Upsert_Only(m, path, content) == [p \in {path} |-> content]

Upsert(m, path, content) ==
  [p \in DOMAIN m \cup {path} |-> IF p = path THEN content ELSE m[p]]

Remove(m, path) == [p \in DOMAIN m \ {path} |-> m[p]]

\* { ...a, ...b }
Spread(a, b) ==
  [p \in DOMAIN a \cup DOMAIN b |-> IF p \in DOMAIN b THEN b[p] ELSE a[p]]

\* m[path] read as a condition: undefined and "" are both falsy.
Truthy(m, path) == path \in DOMAIN m /\ m[path] # ""

\* m[path] read as a value: <<>> stands for undefined.
Lookup(m, path) == IF path \in DOMAIN m THEN <<m[path]>> ELSE <<>>

RemoveAt(seq, i) ==
  [j \in 1..(Len(seq) - 1) |-> IF j < i THEN seq[j] ELSE seq[j + 1]]

\* ------------------------------------------------------------------- state
VARIABLES
  variant,                \* which version of the preview component runs
  isProduction,           \* prop of the preview component
  \* BuilderView and the hooks it reads
  filesMap,
  filesRef,               \* identity of the object filesMap holds
  fileTree,
  lastReceivedFile, lastDeletedPath, lastRenamedFile,
  prevLastReceivedFileRef, prevLastDeletedPathRef, prevLastRenamedFileRef,
  terminalError,
  activeFile,             \* useWebSocket: the file open in the editor, if any
  fetches,                \* openFile(path, true) requests not answered yet
  webContainerInstance,
  serverUrl,
  isSetupComplete,
  \* WebContainerPreview
  mounted,
  setupError,
  currentStep,
  setupStartedRef,
  prevFilesRef,
  errorBuffer,
  errorTimeout,
  burst,                  \* history: the chunks fed since the timer was armed
  initialLoadCompleteRef, \* part_003: the first compile has been reported
  stepTimers,             \* part_003: pending setTimeout(() => setCurrentStep("ready"))
  attempts,               \* setupContainer() calls suspended at an await
  syncs,                  \* sync() calls suspended at an await
  \* the sandbox
  fs,
  nodeModules,
  serverSpawned,
  \* history
  nEvents,
  nFetches,
  nChunks,
  nStarted,
  nFailed,
  installFailed,
  lastEffect

vars == <<variant, isProduction, filesMap, filesRef, fileTree,
          lastReceivedFile, lastDeletedPath, lastRenamedFile,
          prevLastReceivedFileRef, prevLastDeletedPathRef, prevLastRenamedFileRef,
          terminalError, activeFile, fetches, nFetches,
          webContainerInstance, serverUrl, isSetupComplete,
          mounted, setupError, currentStep, setupStartedRef, prevFilesRef,
          errorBuffer, errorTimeout, burst, initialLoadCompleteRef, stepTimers,
          attempts, syncs, fs,
          nodeModules, serverSpawned, nEvents, nChunks, nStarted, nFailed, installFailed, lastEffect>>

cfgVars == <<variant, isProduction>>
slotVars == <<fileTree, lastReceivedFile, lastDeletedPath, lastRenamedFile,
              prevLastReceivedFileRef, prevLastDeletedPathRef, prevLastRenamedFileRef>>
mapVars == <<filesRef, nEvents, nChunks, lastEffect>>
boxVars == <<fs, nodeModules, serverSpawned>>
fetchVars == <<activeFile, fetches, nFetches>>

Variants == {"part_002", "part_003"}
NoError == <<>>

\* ------------------------------------------------------------ output text
\* Process output is a sequence of pieces of chunks.  A piece records the chunk
\* it comes from, its length in characters, whether a failure marker of
\* errorRegex lies in it, and whether slice() cut its head off.  A marker sits
\* at the head of its chunk ("Error: x"), so a cut piece has lost it.
Piece(id, len, marker) ==
  [id |-> id, len |-> len, marker |-> marker, cut |-> FALSE, progress |-> "none"]

\* A chunk of a process's output: a piece that is whole, with the progress
\* marker of the dev server or the build it holds, if any.
Progress == {"none", "compiling", "compiled", "rebuilding", "done", "readyIn"}
Chunk(id, len, marker, progress) == [Piece(id, len, marker) EXCEPT !.progress = progress]

RECURSIVE TextLen(_)
TextLen(text) ==
  IF text = <<>> THEN 0 ELSE text[1].len + TextLen(Tail(text))

\* errorRegex.current.test(text)
Matches(text) == \E i \in 1..Len(text) : text[i].marker

\* text.slice(-n)
RECURSIVE SliceLast(_, _)
SliceLast(text, n) ==
  IF text = <<>> \/ n <= 0 THEN <<>>
  ELSE LET last == text[Len(text)]
           front == SubSeq(text, 1, Len(text) - 1)
       IN IF last.len <= n
          THEN Append(SliceLast(front, n - last.len), last)
          ELSE <<[last EXCEPT !.len = n, !.marker = FALSE, !.cut = TRUE]>>

\* (mutant) the buffer is never cut.
Trimmed_NoCut(buffer) == buffer

Trimmed(buffer) ==
  IF TextLen(buffer) > BufferCap THEN SliceLast(buffer, KeepLen) ELSE buffer

\* (mutant) a timer is scheduled without cancelling the pending one.
Restarted_NoCancel(timers) == timers + 1

\* clearTimeout(errorTimeout.current); errorTimeout.current = setTimeout(...):
\* the pending callback, if any, is cancelled and one is scheduled.
Restarted(timers) == (IF timers > 0 THEN timers - 1 ELSE 0) + 1

\* part_002: every chunk is appended; the chunk and the buffer are both tested.
scanForErrors(scan, chunk) ==
  LET buffer == Trimmed(Append(scan.buffer, chunk))
  IN [buffer |-> buffer,
      timers |-> IF chunk.marker \/ Matches(buffer)
                 THEN Restarted(scan.timers) ELSE scan.timers]

\* part_003: only a chunk that matches is appended.
processLogErrors(scan, chunk) ==
  IF chunk.marker
  THEN [buffer |-> Trimmed(Append(scan.buffer, chunk)),
        timers |-> Restarted(scan.timers)]
  ELSE scan

\* The scanner is fed `chunk` and ends in `scan`.  burst is the run of chunks
\* fed from the one that armed the pending timer on; it is empty when no timer
\* is pending.
Fed(v, chunk, scan) ==
  [v EXCEPT !.buffer = scan.buffer, !.timers = scan.timers,
            !.burst = IF scan.timers > 0 THEN Append(@, chunk) ELSE <<>>]

\* part_003, the progress part of processLog: "Compiling /" and "[Fast Refresh]
\* rebuilding" show the compiling step until the first compile was reported;
\* "Compiled /", "Compiled in" and "[Fast Refresh] done" schedule
\* setCurrentStep("ready"); "Compiled ..." and "Ready in" set
\* initialLoadCompleteRef.
processLogProgress(v, chunk) ==
  [v EXCEPT
     !.step = IF chunk.progress \in {"compiling", "rebuilding"} /\ ~v.loaded
              THEN "compiling" ELSE @,
     !.loaded = @ \/ chunk.progress \in {"compiled", "readyIn"},
     !.stepTimers = IF chunk.progress \in {"compiled", "done"} THEN @ + 1 ELSE @]

\* part_003: processLog(data), the progress part and then the error part.
processLog(v, chunk) ==
  LET w == processLogProgress(v, chunk)
  IN Fed(w, chunk, processLogErrors([buffer |-> w.buffer, timers |-> w.timers], chunk))

\* The handler the process output is piped to.
OutputHandler(v, chunk) ==
  IF variant = "part_002"
  THEN Fed(v, chunk, scanForErrors([buffer |-> v.buffer, timers |-> v.timers], chunk))
  ELSE processLog(v, chunk)

\* ------------------------------------------------------------- sync delta
\* (mutant) only keys that are new count as changed.
ChangedFiles_NewKeysOnly(files, prev) ==
  LET keys == {p \in DOMAIN files : ~(p \in DOMAIN prev)}
  IN [p \in keys |-> files[p]]

ChangedFiles(files, prev) ==
  LET keys == {p \in DOMAIN files : Lookup(files, p) # Lookup(prev, p)}
  IN [p \in keys |-> files[p]]

DeletedFiles(files, prev) == {p \in DOMAIN prev : ~(p \in DOMAIN files)}

\* --------------------------------------------- the preview component's view
\* The props and the per-instance state one render and its effects read and
\* write, as a record: handlers are functions from view to view.
View ==
  [inst |-> webContainerInstance, url |-> serverUrl, files |-> filesMap,
   complete |-> isSetupComplete, mounted |-> mounted, err |-> setupError,
   step |-> currentStep, started |-> setupStartedRef, prev |-> prevFilesRef,
   buffer |-> errorBuffer, timers |-> errorTimeout, burst |-> burst,
   loaded |-> initialLoadCompleteRef, stepTimers |-> stepTimers,
   attempts |-> attempts, syncs |-> syncs, nStarted |-> nStarted]

Commit(v) ==
  /\ webContainerInstance' = v.inst
  /\ serverUrl' = v.url
  /\ filesMap' = v.files
  /\ isSetupComplete' = v.complete
  /\ mounted' = v.mounted
  /\ setupError' = v.err
  /\ currentStep' = v.step
  /\ setupStartedRef' = v.started
  /\ prevFilesRef' = v.prev
  /\ errorBuffer' = v.buffer
  /\ errorTimeout' = v.timers
  /\ burst' = v.burst
  /\ initialLoadCompleteRef' = v.loaded
  /\ stepTimers' = v.stepTimers
  /\ attempts' = v.attempts
  /\ syncs' = v.syncs
  /\ nStarted' = v.nStarted

\* (mutant) the manifest is not looked for.
HasManifest_Always(files) == DOMAIN files = DOMAIN files

\* The guards of setupContainer before its first await.
HasManifest(files) == Truthy(files, Manifest) \/ Truthy(files, SlashManifest)

\* (mutant) the started flag is not consulted.
SetupGuard_NoStartedFlag(v) == v.inst /\ ~v.complete

SetupGuard(v) == v.inst /\ ~v.complete /\ ~v.started

\* (mutant) a known server URL is not looked at.
SetupDecision_NoFastPath(v) ==
  IF ~SetupGuard(v) THEN "return"
  ELSE IF ~HasManifest(v.files) THEN "wait"
  ELSE "start"

SetupDecision(v) ==
  IF ~SetupGuard(v) THEN "return"
  ELSE IF v.url THEN "skip"
  ELSE IF ~HasManifest(v.files) THEN "wait"
  ELSE "start"

\* A call of setupContainer suspended at its first await: the files of the
\* render that started it, the call it awaits, its locals installExitCode and
\* buildExitCode (empty until assigned), and whether the component instance that
\* started it is still mounted.
Attempt(files) ==
  [pc |-> "readFile", files |-> files, installExitCode |-> <<>>,
   buildExitCode |-> <<>>, live |-> TRUE]

\* setupContainer up to its first await: readFile('/package.json') is issued.
\* An attempt holds the files of the render that started it, the call it awaits,
\* and whether the component instance that started it is still mounted.
SetupEffect(v) ==
  CASE SetupDecision(v) = "skip" ->
         [v EXCEPT !.complete = TRUE, !.step = "ready",
                   !.loaded = @ \/ variant = "part_003"]
    [] SetupDecision(v) = "start" ->
         [v EXCEPT !.started = TRUE, !.err = NoError, !.step = "mounting",
                   !.attempts = Append(@, Attempt(v.files)),
                   !.nStarted = @ + 1]
    [] OTHER -> v

\* The file sync effect: the delta against prevFilesRef, and sync() up to its
\* first await.  A cycle holds the map it will store in prevFilesRef, the paths
\* still to delete and to write (the awaited one included), and the path whose
\* mkdir has settled and whose writeFile is awaited; live tells whether the
\* component instance that called sync() is still mounted.  History: base is the
\* snapshot the delta was computed against, trigger the paths in which the map
\* of this render differs from the map of the render before.
SyncGuard(v) == v.inst /\ v.complete

SyncEffect(v) ==
  IF ~SyncGuard(v) THEN v
  ELSE LET changedFiles == ChangedFiles(v.files, v.prev)
           deletedFiles == DeletedFiles(v.files, v.prev)
       IN IF DOMAIN changedFiles = {} /\ deletedFiles = {} THEN v
          ELSE [v EXCEPT
                  !.step = IF variant = "part_003" /\ DOMAIN changedFiles # {}
                           THEN "compiling" ELSE @,
                  !.syncs = Append(@, [files |-> v.files,
                                       base |-> v.prev,
                                       trigger |-> {p \in DOMAIN v.files \cup DOMAIN filesMap :
                                                      Lookup(v.files, p) # Lookup(filesMap, p)},
                                       changedFiles |-> changedFiles,
                                       deletedFiles |-> deletedFiles,
                                       toDelete |-> deletedFiles,
                                       toWrite |-> DOMAIN changedFiles,
                                       writing |-> <<>>,
                                       live |-> TRUE])]

\* One render of the preview component and the effects whose dependencies
\* changed.  setIsSetupComplete(true) in the setup effect causes a second
\* render, in which the sync effect runs.
Render(v, runSetup, runSync) ==
  IF ~v.mounted THEN v
  ELSE LET v1 == IF runSetup THEN SetupEffect(v) ELSE v
       IN IF runSync \/ v1.complete # v.complete THEN SyncEffect(v1) ELSE v1

\* ------------------------------------------------ BuilderView: the normalizer
\* A slot holds <<>> (null) or <<event>>; an event object carries a tag that
\* differs from the tag of the object the slot held before, so that comparing
\* a slot with the reference last processed is comparing identities.
NewObject(slot, event) ==
  <<[event EXCEPT !.tag = IF slot = <<>> THEN 0 ELSE 1 - slot[1].tag]>>

\* (mutant) a rename writes newPath whether or not oldPath holds anything.
EventSync_RenameUnguarded(prev, received, deleted, renamed, prevReceived, prevDeleted, prevRenamed) ==
  LET upd == received # prevReceived /\ received # <<>>
      m1 == IF upd THEN Upsert(prev, received[1].path, received[1].content) ELSE prev
      del == deleted # prevDeleted /\ deleted # <<>>
      m2 == IF del THEN Remove(m1, deleted[1].path) ELSE m1
      ren == renamed # prevRenamed /\ renamed # <<>>
      m3 == IF ren
            THEN Remove(Upsert(m2, renamed[1].newPath,
                               IF renamed[1].oldPath \in DOMAIN m2
                               THEN m2[renamed[1].oldPath] ELSE ""),
                        renamed[1].oldPath)
            ELSE m2
      hasChanges == upd \/ del \/ ren
  IN [map |-> IF hasChanges THEN m3 ELSE prev, hasChanges |-> hasChanges,
      prevReceived |-> received, prevDeleted |-> deleted, prevRenamed |-> renamed]

\* (mutant) a slot is applied whenever it holds an event, processed or not.
EventSync_NoIdentity(prev, received, deleted, renamed, prevReceived, prevDeleted, prevRenamed) ==
  LET upd == received # <<>>
      m1 == IF upd THEN Upsert(prev, received[1].path, received[1].content) ELSE prev
      del == deleted # <<>>
      m2 == IF del THEN Remove(m1, deleted[1].path) ELSE m1
      ren == renamed # <<>> /\ Truthy(m2, renamed[1].oldPath)
      m3 == IF ren
            THEN Remove(Upsert(m2, renamed[1].newPath, m2[renamed[1].oldPath]),
                        renamed[1].oldPath)
            ELSE m2
      hasChanges == upd \/ del \/ ren
  IN [map |-> IF hasChanges THEN m3 ELSE prev, hasChanges |-> hasChanges,
      prevReceived |-> received, prevDeleted |-> deleted, prevRenamed |-> renamed]

\* The updater of the event sync effect, with the effect's early return.
EventSync(prev, received, deleted, renamed, prevReceived, prevDeleted, prevRenamed) ==
  IF received = <<>> /\ deleted = <<>> /\ renamed = <<>>
  THEN [map |-> prev, hasChanges |-> FALSE, prevReceived |-> prevReceived,
        prevDeleted |-> prevDeleted, prevRenamed |-> prevRenamed]
  ELSE
    LET upd == received # prevReceived /\ received # <<>>
        m1 == IF upd THEN Upsert(prev, received[1].path, received[1].content) ELSE prev
        del == deleted # prevDeleted /\ deleted # <<>>
        m2 == IF del THEN Remove(m1, deleted[1].path) ELSE m1
        ren == renamed # prevRenamed /\ renamed # <<>>
                 /\ Truthy(m2, renamed[1].oldPath)
        m3 == IF ren
              THEN Remove(Upsert(m2, renamed[1].newPath, m2[renamed[1].oldPath]),
                          renamed[1].oldPath)
              ELSE m2
        hasChanges == upd \/ del \/ ren
    IN [map |-> IF hasChanges THEN m3 ELSE prev, hasChanges |-> hasChanges,
        prevReceived |-> received, prevDeleted |-> deleted, prevRenamed |-> renamed]

\* A FileNode: content is <<>> when the node has no content attribute.
FileNode(path, content) ==
  [path |-> path, type |-> "file", content |-> content, children |-> <<>>]
DirNode(path, children) ==
  [path |-> path, type |-> "directory", content |-> <<>>, children |-> children]

\* traverse(nodes), filling newFiles in order.
RECURSIVE Traverse(_, _)
Traverse(nodes, newFiles) ==
  IF nodes = <<>> THEN newFiles
  ELSE LET node == nodes[1]
           here == IF node.type = "file" /\ node.content # <<>> /\ node.content[1] # ""
                   THEN Upsert(newFiles, node.path, node.content[1])
                   ELSE newFiles
       IN Traverse(Tail(nodes), Traverse(node.children, here))

\* (mutant) the merge returns the merged object without comparing it with prev.
MergeTree_AlwaysReplace(prev, tree) ==
  IF Len(tree) = 0 THEN [map |-> prev, replaced |-> FALSE]
  ELSE [map |-> Spread(prev, Traverse(tree, EmptyMap)), replaced |-> TRUE]

\* (mutant) the map is rebuilt from the snapshot alone.
MergeTree_SnapshotOnly(prev, tree) ==
  IF Len(tree) = 0 THEN [map |-> prev, replaced |-> FALSE]
  ELSE LET updated == Traverse(tree, EmptyMap)
       IN [map |-> IF updated = prev THEN prev ELSE updated,
           replaced |-> updated # prev]

\* The updater of the fileTree merge effect, with the effect's length guard.
MergeTree(prev, tree) ==
  IF Len(tree) = 0 THEN [map |-> prev, replaced |-> FALSE]
  ELSE LET updated == Spread(prev, Traverse(tree, EmptyMap))
           same == /\ Cardinality(DOMAIN prev) = Cardinality(DOMAIN updated)
                   /\ \A k \in DOMAIN prev : prev[k] = updated[k]
       IN [map |-> IF same THEN prev ELSE updated, replaced |-> ~same]

\* ------------------------------------------------------------------- inputs
Contents == {"", "1", "2"}
RootB == <<"b.js">>
Paths == {Manifest, SlashManifest, SrcA, RootB}

UpdateEvent(path, content) == [path |-> path, content |-> content, tag |-> 0]
DeleteEvent(path) == [path |-> path, tag |-> 0]
RenameEvent(oldPath, newPath) == [oldPath |-> oldPath, newPath |-> newPath, tag |-> 0]

\* What the push channel delivers to the normalizer alone.
MapPaths == {Manifest, SrcA, RootB}
MapUpdates == {UpdateEvent(p, c) : p \in MapPaths, c \in Contents}
MapDeletes == {DeleteEvent(p) : p \in MapPaths}
MapRenames == {RenameEvent(p, q) : p \in MapPaths, q \in MapPaths}
MapTrees ==
  {<<FileNode(RootB, <<c>>), DirNode(<<"src">>, <<FileNode(SrcA, d)>>)>> :
     c \in Contents, d \in {<<>>, <<"">>, <<"1">>}}

\* Lengths of output chunks: "Error: x", "details...", two long ones that
\* together exceed the buffer cap, and one that exceeds it alone.
ChunkLens == {8, 10, 900, 1200, 2500}

\* The chunks a process writes during a bring-up: "Error: x", or a line with
\* one progress marker.
LogChunks == {<<TRUE, "none">>} \cup {<<FALSE, progress>> : progress \in Progress \ {"none"}}

\* The maps the sync delta is computed on: a, b and c, each absent or holding
\* one of two contents, and d/e.js in a directory, absent or present.
PathA == <<"a">>
PathB == <<"b">>
PathC == <<"c">>
PathD == <<"d", "e.js">>
DeltaPaths == {PathA, PathB, PathC, PathD}
DeltaChoices ==
  [DeltaPaths -> {<<>>, <<"1">>, <<"2">>, <<"3">>}]
DeltaMaps ==
  {[p \in {q \in DeltaPaths : choice[q] # <<>>} |-> choice[p][1]] :
     choice \in {c \in DeltaChoices : /\ c[PathA] \in {<<>>, <<"1">>, <<"2">>}
                                      /\ c[PathB] \in {<<>>, <<"2">>, <<"3">>}
                                      /\ c[PathC] \in {<<>>, <<"3">>, <<"1">>}
                                      /\ c[PathD] \in {<<>>, <<"1">>}}}

AllPaths == Paths \cup DeltaPaths

\* What the push channel delivers while the sandbox is brought up and synced.
LiveUpdates == {UpdateEvent(Manifest, "1"), UpdateEvent(SrcA, "1"), UpdateEvent(SrcA, "2")}
LiveDeletes == {DeleteEvent(SrcA)}
LiveTrees ==
  {<<FileNode(Manifest, <<"1">>), DirNode(<<"src">>, <<FileNode(SrcA, <<"1">>)>>)>>,
   <<FileNode(Manifest, <<>>), DirNode(<<"src">>, <<FileNode(SrcA, <<"2">>)>>)>>}

\* --------------------------------------------------------------------- Init
Init ==
  /\ variant \in Variants
  /\ isProduction \in BOOLEAN
  /\ filesMap = EmptyMap
  /\ filesRef = 0
  /\ fileTree = <<>>
  /\ activeFile = <<>> /\ fetches = {} /\ nFetches = 0
  /\ lastReceivedFile = <<>> /\ lastDeletedPath = <<>> /\ lastRenamedFile = <<>>
  /\ prevLastReceivedFileRef = <<>>
  /\ prevLastDeletedPathRef = <<>>
  /\ prevLastRenamedFileRef = <<>>
  /\ terminalError = <<>>
  /\ webContainerInstance = FALSE
  /\ serverUrl = FALSE
  /\ isSetupComplete = FALSE
  /\ mounted = FALSE
  /\ setupError = NoError
  /\ currentStep = "mounting"
  /\ setupStartedRef = FALSE
  /\ prevFilesRef = EmptyMap
  /\ errorBuffer = <<>>
  /\ errorTimeout = 0
  /\ burst = <<>>
  /\ initialLoadCompleteRef = FALSE
  /\ stepTimers = 0
  /\ attempts = <<>>
  /\ syncs = <<>>
  /\ fs = EmptyMap
  /\ nodeModules = FALSE
  /\ serverSpawned = FALSE
  /\ nEvents = 0
  /\ nChunks = 0
  /\ nStarted = 0
  /\ nFailed = 0
  /\ installFailed = FALSE
  /\ lastEffect = "none"

\* ------------------------------------------------------ BuilderView actions
\* setFilesMap returned `map`; when it is a new object the preview component
\* renders with it and both of its effects run.
SetFilesMap(map, replaced) ==
  /\ filesRef' = IF replaced THEN filesRef + 1 ELSE filesRef
  /\ Commit(IF replaced THEN Render([View EXCEPT !.files = map], TRUE, TRUE) ELSE View)
  /\ nStarted' <= MaxAttempts

\* The pre-fetch effect's test: the connection is up, a tree is known, a file
\* is active and filesMap[activeFile] is falsy.
PreFetch(connected, tree, active, files) ==
  connected /\ tree # <<>> /\ active # <<>> /\ ~Truthy(files, active[1])

\* The pre-fetch effect after a render in which one of its dependencies
\* changed (run): openFile(activeFile, true) is called or not.  pending is the
\* set of requests in flight before it runs.
PreFetchEffect(run, connected, tree, active, files, pending) ==
  IF run /\ PreFetch(connected, tree, active, files)
  THEN /\ fetches' = pending \cup {active[1]}
       /\ nFetches' = nFetches + 1
       /\ nFetches' <= MaxFetches
  ELSE /\ fetches' = pending
       /\ nFetches' = nFetches

\* New objects arrive in one or more of the three slots, the event sync effect
\* runs, and the pre-fetch effect after it when the map was replaced.
Arrive(received, deleted, renamed, pending) ==
  /\ received # <<>> \/ deleted # <<>> \/ renamed # <<>>
  /\ LET r == IF received = <<>> THEN lastReceivedFile
              ELSE NewObject(lastReceivedFile, received[1])
         d == IF deleted = <<>> THEN lastDeletedPath
              ELSE NewObject(lastDeletedPath, deleted[1])
         n == IF renamed = <<>> THEN lastRenamedFile
              ELSE NewObject(lastRenamedFile, renamed[1])
         out == EventSync(filesMap, r, d, n, prevLastReceivedFileRef,
                          prevLastDeletedPathRef, prevLastRenamedFileRef)
     IN /\ lastReceivedFile' = r
        /\ lastDeletedPath' = d
        /\ lastRenamedFile' = n
        /\ prevLastReceivedFileRef' = out.prevReceived
        /\ prevLastDeletedPathRef' = out.prevDeleted
        /\ prevLastRenamedFileRef' = out.prevRenamed
        /\ SetFilesMap(out.map, out.hasChanges)
        /\ PreFetchEffect(out.hasChanges, mounted, fileTree, activeFile, out.map, pending)
  /\ nChunks' = nChunks
  /\ lastEffect' = "events"
  /\ UNCHANGED <<cfgVars, fileTree, activeFile, terminalError, boxVars, nFailed,
                 installFailed>>

\* The push channel puts a new object into one or more of the three slots.
Deliver(received, deleted, renamed) ==
  /\ nEvents < MaxEvents
  /\ Arrive(received, deleted, renamed, fetches)
  /\ nEvents' = nEvents + 1

\* The backend answers an openFile request: the file's content arrives in the
\* update slot.
FetchResponds(path, content) ==
  /\ path \in fetches
  /\ Arrive(<<UpdateEvent(path, content)>>, <<>>, <<>>, fetches \ {path})
  /\ nEvents' = nEvents

\* The user opens a file: useWebSocket's activeFile changes and the pre-fetch
\* effect runs.
SelectFile(path) ==
  /\ activeFile # <<path>>
  /\ activeFile' = <<path>>
  /\ PreFetchEffect(TRUE, mounted, fileTree, activeFile', filesMap, fetches)
  /\ UNCHANGED <<cfgVars, slotVars, mapVars, terminalError, boxVars, nFailed,
                 installFailed>>
  /\ Commit(View)

\* The push channel delivers a tree snapshot (a new array): the fileTree merge
\* effect runs, and the pre-fetch effect after it.
TreeArrives(tree) ==
  /\ nEvents < MaxEvents
  /\ fileTree' = tree
  /\ LET out == MergeTree(filesMap, tree)
     IN /\ SetFilesMap(out.map, out.replaced)
        /\ PreFetchEffect(TRUE, mounted, tree, activeFile, out.map, fetches)
  /\ nEvents' = nEvents + 1
  /\ nChunks' = nChunks
  /\ lastEffect' = "tree"
  /\ UNCHANGED <<cfgVars, activeFile, lastReceivedFile, lastDeletedPath, lastRenamedFile,
                 prevLastReceivedFileRef, prevLastDeletedPathRef,
                 prevLastRenamedFileRef, terminalError, boxVars, nFailed,
                 installFailed>>

\* ------------------------------------------------- preview component actions
\* What a handler of the preview component leaves alone in BuilderView.
bvFrame == <<cfgVars, slotVars, mapVars, fetchVars>>

\* A handler of the preview component ends in view v.
Step(v) == Commit(v) /\ nStarted' <= MaxAttempts

\* A continuation of an async function whose component instance was unmounted
\* (live = FALSE) still runs: its state setters do nothing and the refs it
\* writes are those of the old instance, so of view w it leaves only what is
\* not the instance's own: the setup-complete flag of BuilderView's hook and
\* the calls in flight.
Settled(live, v, w) ==
  IF live THEN w
  ELSE [w EXCEPT !.err = v.err, !.step = v.step, !.started = v.started,
                 !.prev = v.prev, !.buffer = v.buffer, !.timers = v.timers,
                 !.burst = v.burst, !.loaded = v.loaded,
                 !.stepTimers = v.stepTimers]

\* BuilderView returns its skeleton (the connection status is 'Connecting'
\* again): the preview component is unmounted, its state and refs are gone, and
\* the async functions it called go on.  The next mount is a new instance.
\* The old instance's scanner is not followed after the unmount: the step is
\* taken when none of its error timers is pending, and what a continuation of
\* the old instance feeds to it afterwards is dropped.
Unmount ==
  /\ mounted
  /\ errorTimeout = 0
  /\ Step([View EXCEPT !.mounted = FALSE, !.err = NoError, !.step = "mounting",
                       !.started = FALSE, !.prev = EmptyMap, !.buffer = <<>>,
                       !.burst = <<>>, !.loaded = FALSE, !.stepTimers = 0,
                       !.attempts = [k \in DOMAIN @ |-> [@[k] EXCEPT !.live = FALSE]],
                       !.syncs = [k \in DOMAIN @ |-> [@[k] EXCEPT !.live = FALSE]]])
  /\ UNCHANGED <<bvFrame, terminalError, boxVars, nFailed, installFailed>>

\* useWebContainer's boot resolves: the instance prop becomes non-null.
Boot ==
  /\ ~webContainerInstance
  /\ Step(Render([View EXCEPT !.inst = TRUE], TRUE, TRUE))
  /\ UNCHANGED <<bvFrame, terminalError, boxVars, nFailed, installFailed>>

\* BuilderView leaves its skeleton: the preview component mounts, useRef(files)
\* takes the map of that render, and both effects run.
MountPreview ==
  /\ ~mounted
  /\ Step(Render([View EXCEPT !.mounted = TRUE, !.prev = filesMap], TRUE, TRUE))
  /\ PreFetchEffect(TRUE, TRUE, fileTree, activeFile, filesMap, fetches)
  /\ UNCHANGED <<cfgVars, slotVars, mapVars, activeFile, terminalError, boxVars,
                 nFailed, installFailed>>

\* BuilderView renders again for a reason of its own (chat, dialogs, a slot that
\* changed): handleTerminalError is a new function, so scanForErrors/processLog
\* is one too and the setup effect runs; the sync effect's dependencies are
\* unchanged.
Rerender ==
  /\ Step(Render(View, TRUE, FALSE))
  /\ UNCHANGED <<bvFrame, terminalError, boxVars, nFailed, installFailed>>

\* The sandbox reports the spawned server's URL: the serverUrl prop is set.
ServerReady ==
  /\ serverSpawned /\ ~serverUrl
  /\ Step(Render([View EXCEPT !.url = TRUE], TRUE, FALSE))
  /\ UNCHANGED <<bvFrame, terminalError, boxVars, nFailed, installFailed>>

\* ---- setupContainer after its first await
MessageLen(message) ==
  CASE message = "install" -> 44    \* Failed to install dependencies. Exit code: 1
    [] message = "build" -> 30      \* Build failed with exit code: 1
    [] OTHER -> 20                  \* String(err) of a rejected sandbox call

\* `Fatal Error: ${errorMessage}`, a chunk with the marker "error:"; the
\* chunks of process output are numbered from 1.
FatalText(message) == Piece(0, 13 + MessageLen(message), TRUE)

\* (mutant) the catch block records no message.
Failed_Silent(v, i, message) ==
  Settled(v.attempts[i].live, v,
          [v EXCEPT !.started = FALSE, !.attempts = RemoveAt(@, i)])

\* (mutant) the catch block leaves the started flag set.
Failed_KeepStarted(v, i, message) ==
  LET w == IF variant = "part_002"
           THEN Fed(v, FatalText(message),
                    scanForErrors([buffer |-> v.buffer, timers |-> v.timers],
                                  FatalText(message)))
           ELSE v
  IN Settled(v.attempts[i].live, v,
             [w EXCEPT !.err = <<message>>, !.attempts = RemoveAt(@, i)])

\* The catch block.
Failed(v, i, message) ==
  LET w == IF variant = "part_002"
           THEN Fed(v, FatalText(message),
                    scanForErrors([buffer |-> v.buffer, timers |-> v.timers],
                                  FatalText(message)))
           ELSE v
  IN Settled(v.attempts[i].live, v,
             [w EXCEPT !.err = <<message>>, !.started = FALSE,
                       !.attempts = RemoveAt(@, i)])

\* (mutant) the attempt ends as a failed one does: the step is set, the
\* setup-complete flag is not, and the started flag is reset.
Completed_NotFlagged(v, i) ==
  Render(Settled(v.attempts[i].live, v,
                 [v EXCEPT !.step = "ready", !.started = FALSE,
                           !.attempts = RemoveAt(@, i)]), TRUE, TRUE)

\* setIsSetupComplete(true); setCurrentStep("ready"), and the render it causes.
Completed(v, i) ==
  Render(Settled(v.attempts[i].live, v,
                 [v EXCEPT !.complete = TRUE, !.step = "ready",
                           !.attempts = RemoveAt(@, i)]), TRUE, TRUE)

\* "Build or start": the step after the install step.
BuildOrStart(v, i) ==
  Settled(v.attempts[i].live, v,
          IF isProduction
          THEN [v EXCEPT !.step = "building", !.attempts[i].pc = "spawnBuild"]
          ELSE [v EXCEPT !.step = "starting", !.attempts[i].pc = "spawnDev"])

\* transformFlatMapToWebContainer(files): the flat map as the sandbox's tree,
\* here the files by their paths under the working directory.
transformFlatMapToWebContainer(files) ==
  LET targets == {FsPath(p) : p \in DOMAIN files}
      key(q) == IF q \in DOMAIN files THEN q
                ELSE CHOOSE p \in DOMAIN files : FsPath(p) = q
  IN [q \in targets |-> files[key(q)]]

\* mount(webContainerFiles): the tree is written over what the sandbox holds.
Mounted(box, files) == Spread(box, transformFlatMapToWebContainer(files))

\* (mutant) the result of the check is ignored: mount is always called.
ReadFileSettle_AlwaysMount(i) ==
  /\ attempts[i].pc = "readFile"
  /\ Step([View EXCEPT !.attempts[i].pc = "mount"])
  /\ UNCHANGED <<bvFrame, terminalError, boxVars, nFailed, installFailed>>

\* fs.readFile('/package.json') settles: it resolves iff the file exists.
ReadFileSettle(i) ==
  /\ attempts[i].pc = "readFile"
  /\ LET filesMounted == Manifest \in DOMAIN fs
     IN Step([View EXCEPT !.attempts[i].pc =
                IF filesMounted THEN "readdir" ELSE "mount"])
  /\ UNCHANGED <<bvFrame, terminalError, boxVars, nFailed, installFailed>>

\* mount(webContainerFiles) settles.
MountSettle(i, ok) ==
  /\ attempts[i].pc = "mount"
  /\ IF ok
     THEN /\ fs' = Mounted(fs, attempts[i].files)
          /\ Step([View EXCEPT !.attempts[i].pc = "readdir"])
          /\ nFailed' = nFailed
     ELSE /\ fs' = fs
          /\ Step(Failed(View, i, "mount"))
          /\ nFailed' = nFailed + 1
  /\ UNCHANGED <<bvFrame, terminalError, nodeModules, serverSpawned, installFailed>>

\* fs.readdir('/') settles.
ReaddirSettle(i) ==
  /\ attempts[i].pc = "readdir"
  /\ LET dependenciesInstalled == nodeModules
     IN Step(IF dependenciesInstalled THEN BuildOrStart(View, i)
             ELSE Settled(attempts[i].live, View,
                          [View EXCEPT !.step = "installing",
                                       !.attempts[i].pc = "spawnInstall"]))
  /\ UNCHANGED <<bvFrame, terminalError, boxVars, nFailed, installFailed>>

\* spawn("pnpm", ["install", ...]) settles.
SpawnInstallSettle(i, ok) ==
  /\ attempts[i].pc = "spawnInstall"
  /\ IF ok
     THEN Step([View EXCEPT !.attempts[i].pc = "installExit"]) /\ nFailed' = nFailed
     ELSE Step(Failed(View, i, "spawn")) /\ nFailed' = nFailed + 1
  /\ UNCHANGED <<bvFrame, terminalError, boxVars, installFailed>>

\* installProcess.exit settles.  An install that exits with 0 has written
\* node_modules; one that fails may have created the directory already.
InstallExit(i, code, leftovers) ==
  /\ attempts[i].pc = "installExit"
  /\ IF code = 0
     THEN /\ nodeModules' = TRUE
          /\ Step(BuildOrStart([View EXCEPT !.attempts[i].installExitCode = <<code>>], i))
          /\ UNCHANGED <<nFailed, installFailed>>
     ELSE /\ nodeModules' = (nodeModules \/ leftovers)
          /\ Step(Failed(View, i, "install"))
          /\ nFailed' = nFailed + 1
          /\ installFailed' = TRUE
  /\ UNCHANGED <<bvFrame, terminalError, fs, serverSpawned>>

\* spawn("pnpm", ["run", "build"]) settles.
SpawnBuildSettle(i, ok) ==
  /\ attempts[i].pc = "spawnBuild"
  /\ IF ok
     THEN Step([View EXCEPT !.attempts[i].pc = "buildExit"]) /\ nFailed' = nFailed
     ELSE Step(Failed(View, i, "spawn")) /\ nFailed' = nFailed + 1
  /\ UNCHANGED <<bvFrame, terminalError, boxVars, installFailed>>

\* (mutant) the exit code of the build is not looked at.
BuildExit_IgnoreCode(i, code) ==
  /\ attempts[i].pc = "buildExit"
  /\ Step([View EXCEPT !.attempts[i].pc = "spawnServe",
                       !.attempts[i].buildExitCode = <<code>>])
  /\ nFailed' = nFailed
  /\ UNCHANGED <<bvFrame, terminalError, boxVars, installFailed>>

\* buildProcess.exit settles.
BuildExit(i, code) ==
  /\ attempts[i].pc = "buildExit"
  /\ IF code = 0
     THEN /\ Step([View EXCEPT !.attempts[i].pc = "spawnServe",
                               !.attempts[i].buildExitCode = <<code>>])
          /\ nFailed' = nFailed
     ELSE Step(Failed(View, i, "build")) /\ nFailed' = nFailed + 1
  /\ UNCHANGED <<bvFrame, terminalError, boxVars, installFailed>>

\* (mutant) the exit of the long-running process is awaited before Ready.
SpawnServerSettle_AwaitExit(i, ok) ==
  /\ attempts[i].pc \in {"spawnServe", "spawnDev"}
  /\ IF ok
     THEN /\ serverSpawned' = TRUE
          /\ Step([View EXCEPT !.attempts[i].pc = "serverExit"])
          /\ nFailed' = nFailed
     ELSE /\ serverSpawned' = serverSpawned
          /\ Step(Failed(View, i, "spawn"))
          /\ nFailed' = nFailed + 1
  /\ UNCHANGED <<bvFrame, terminalError, fs, nodeModules, installFailed>>

\* spawn of the long-running process settles: "pnpm dlx serve dist" in
\* production mode, "pnpm run dev" otherwise.  It is not awaited further.
SpawnServerSettle(i, ok) ==
  /\ attempts[i].pc \in {"spawnServe", "spawnDev"}
  /\ IF ok
     THEN /\ serverSpawned' = TRUE
          /\ Step(Completed(View, i))
          /\ nFailed' = nFailed
     ELSE /\ serverSpawned' = serverSpawned
          /\ Step(Failed(View, i, "spawn"))
          /\ nFailed' = nFailed + 1
  /\ UNCHANGED <<bvFrame, terminalError, fs, nodeModules, installFailed>>

\* ---- sync() after its first await
\* fs.rm(path, { recursive: true }): the file, or everything below the directory.
Removed(box, path) ==
  LET below(q) == Len(q) >= Len(path) /\ SubSeq(q, 1, Len(path)) = path
  IN [q \in {q \in DOMAIN box : ~below(q)} |-> box[q]]

\* (mutant) the snapshot is replaced after every operation of the batch.
Synced_Eager(v, i, cycle) ==
  IF cycle.toDelete = {} /\ cycle.toWrite = {}
  THEN Settled(cycle.live, v,
               [v EXCEPT !.prev = cycle.files, !.syncs = RemoveAt(@, i)])
  ELSE [v EXCEPT !.prev = cycle.files, !.syncs[i] = cycle]

\* The end of sync(): prevFilesRef.current = files, once nothing is left to do.
Synced(v, i, cycle) ==
  IF cycle.toDelete = {} /\ cycle.toWrite = {}
  THEN Settled(cycle.live, v,
               [v EXCEPT !.prev = cycle.files, !.syncs = RemoveAt(@, i)])
  ELSE [v EXCEPT !.syncs[i] = cycle]

\* (mutant) a rejected fs.rm ends sync().
RmSettle_Abort(i, path, ok) ==
  /\ path \in syncs[i].toDelete
  /\ fs' = IF ok THEN Removed(fs, FsPath(path)) ELSE fs
  /\ Step(IF ok THEN Synced(View, i, [syncs[i] EXCEPT !.toDelete = @ \ {path}])
          ELSE [View EXCEPT !.syncs = RemoveAt(@, i)])
  /\ UNCHANGED <<bvFrame, terminalError, nodeModules, serverSpawned, nFailed,
                 installFailed>>

\* fs.rm settles, resolved or rejected; the loop goes on either way.
RmSettle(i, path, ok) ==
  /\ path \in syncs[i].toDelete
  /\ fs' = IF ok THEN Removed(fs, FsPath(path)) ELSE fs
  /\ Step(Synced(View, i, [syncs[i] EXCEPT !.toDelete = @ \ {path}]))
  /\ UNCHANGED <<bvFrame, terminalError, nodeModules, serverSpawned, nFailed,
                 installFailed>>

\* fs.mkdir(dirPath, { recursive: true }) settles; rejected, the catch skips
\* the write of this path.
MkdirSettle(i, path, ok) ==
  /\ syncs[i].toDelete = {} /\ syncs[i].writing = <<>>
  /\ path \in syncs[i].toWrite /\ Len(path) > 1
  /\ Step(IF ok THEN [View EXCEPT !.syncs[i].writing = <<path>>]
          ELSE Synced(View, i, [syncs[i] EXCEPT !.toWrite = @ \ {path}]))
  /\ UNCHANGED <<bvFrame, terminalError, boxVars, nFailed, installFailed>>

\* (mutant) the writes do not wait for the deletions.
WriteSettle_Early(i, path, ok) ==
  /\ path \in syncs[i].toWrite
  /\ IF Len(path) > 1 THEN syncs[i].writing = <<path>> ELSE syncs[i].writing = <<>>
  /\ fs' = IF ok THEN Upsert(fs, FsPath(path), syncs[i].changedFiles[path]) ELSE fs
  /\ Step(Synced(View, i, [syncs[i] EXCEPT !.toWrite = @ \ {path},
                                            !.writing = <<>>]))
  /\ UNCHANGED <<bvFrame, terminalError, nodeModules, serverSpawned, nFailed,
                 installFailed>>

\* fs.writeFile(path, content) settles.
WriteSettle(i, path, ok) ==
  /\ syncs[i].toDelete = {}
  /\ path \in syncs[i].toWrite
  /\ IF Len(path) > 1 THEN syncs[i].writing = <<path>> ELSE syncs[i].writing = <<>>
  /\ fs' = IF ok THEN Upsert(fs, FsPath(path), syncs[i].changedFiles[path]) ELSE fs
  /\ Step(Synced(View, i, [syncs[i] EXCEPT !.toWrite = @ \ {path},
                                            !.writing = <<>>]))
  /\ UNCHANGED <<bvFrame, terminalError, nodeModules, serverSpawned, nFailed,
                 installFailed>>

\* ---- process output
\* The processes of the mounted component instance that are running: the
\* install and the build while their exit is awaited, the server once spawned.
Awaited(pc) == \E i \in 1..Len(attempts) : attempts[i].live /\ attempts[i].pc = pc

Running ==
  {process \in {"install", "build", "serve", "dev"} :
     \/ process = "install" /\ Awaited("installExit")
     \/ process = "build" /\ Awaited("buildExit")
     \/ process = (IF isProduction THEN "serve" ELSE "dev") /\ serverSpawned}

\* The output of the process is piped to the scanner: part_002 scans all four,
\* part_003 passes the build's and the dev server's output to processLog and
\* only logs the install's and the static server's.
Piped(process) == variant = "part_002" \/ process \in {"build", "dev"}

\* The output stream of a spawned process delivers a chunk to the WritableStream
\* whose write() is scanForErrors (part_002) or processLog (part_003).
Output(len, marker, progress) ==
  /\ \E process \in Running : Piped(process)
  /\ nChunks < MaxChunks
  /\ Step(OutputHandler(View, Chunk(nChunks + 1, len, marker, progress)))
  /\ nChunks' = nChunks + 1
  /\ UNCHANGED <<cfgVars, slotVars, fetchVars, filesRef, nEvents, lastEffect, terminalError,
                 boxVars, nFailed, installFailed>>

\* ---- the debounce timer
\* The timer elapses: onTerminalError(errorBuffer.current) and the buffer is
\* emptied.  BuilderView's setTerminalError renders again when the report
\* differs from the one it holds.
TimerFires ==
  /\ errorTimeout > 0
  /\ terminalError' = <<errorBuffer>>
  /\ Step(Render([View EXCEPT !.buffer = <<>>, !.timers = @ - 1, !.burst = <<>>],
                 terminalError' # terminalError, FALSE))
  /\ UNCHANGED <<bvFrame, boxVars, nFailed, installFailed>>

\* A timer of processLog elapses: setCurrentStep("ready").
StepTimerFires ==
  /\ stepTimers > 0
  /\ Step([View EXCEPT !.step = "ready", !.stepTimers = @ - 1])
  /\ UNCHANGED <<bvFrame, terminalError, boxVars, nFailed, installFailed>>

\* ----------------------------------------------------------- specification
Next ==
  \/ \E e \in LiveUpdates : Deliver(<<e>>, <<>>, <<>>)
  \/ \E e \in LiveDeletes : Deliver(<<>>, <<e>>, <<>>)
  \/ \E tree \in LiveTrees : TreeArrives(tree)
  \/ Boot
  \/ MountPreview
  \/ Rerender
  \/ ServerReady
  \/ \E i \in 1..Len(attempts) : ReadFileSettle(i)
  \/ \E i \in 1..Len(attempts), ok \in BOOLEAN : MountSettle(i, ok)
  \/ \E i \in 1..Len(attempts) : ReaddirSettle(i)
  \/ \E i \in 1..Len(attempts), ok \in BOOLEAN : SpawnInstallSettle(i, ok)
  \/ \E i \in 1..Len(attempts), code \in {0, 1}, leftovers \in BOOLEAN :
       InstallExit(i, code, leftovers)
  \/ \E i \in 1..Len(attempts), ok \in BOOLEAN : SpawnBuildSettle(i, ok)
  \/ \E i \in 1..Len(attempts), code \in {0, 1} : BuildExit(i, code)
  \/ \E i \in 1..Len(attempts), ok \in BOOLEAN : SpawnServerSettle(i, ok)
  \/ \E i \in 1..Len(syncs), path \in AllPaths, ok \in BOOLEAN : RmSettle(i, path, ok)
  \/ \E i \in 1..Len(syncs), path \in AllPaths, ok \in BOOLEAN : MkdirSettle(i, path, ok)
  \/ \E i \in 1..Len(syncs), path \in AllPaths, ok \in BOOLEAN : WriteSettle(i, path, ok)
  \/ TimerFires

Spec == Init /\ [][Next]_vars

\* A call that setupContainer awaits settles and its continuation runs.
AttemptStep ==
  \/ \E i \in 1..Len(attempts) : ReadFileSettle(i)
  \/ \E i \in 1..Len(attempts), ok \in BOOLEAN : MountSettle(i, ok)
  \/ \E i \in 1..Len(attempts) : ReaddirSettle(i)
  \/ \E i \in 1..Len(attempts), ok \in BOOLEAN : SpawnInstallSettle(i, ok)
  \/ \E i \in 1..Len(attempts), code \in {0, 1}, leftovers \in BOOLEAN :
       InstallExit(i, code, leftovers)
  \/ \E i \in 1..Len(attempts), ok \in BOOLEAN : SpawnBuildSettle(i, ok)
  \/ \E i \in 1..Len(attempts), code \in {0, 1} : BuildExit(i, code)
  \/ \E i \in 1..Len(attempts), ok \in BOOLEAN : SpawnServerSettle(i, ok)

\* The sandbox answers every call: an awaited call eventually settles.
SpecFair == Spec /\ WF_vars(AttemptStep)

\* The normalizer alone: the preview component is not mounted; every kind of
\* event arrives, one slot at a time or update, delete and rename together.
NextMap ==
  \/ \E e \in MapUpdates : Deliver(<<e>>, <<>>, <<>>)
  \/ \E e \in MapDeletes : Deliver(<<>>, <<e>>, <<>>)
  \/ \E e \in MapRenames : Deliver(<<>>, <<>>, <<e>>)
  \/ \E u \in {UpdateEvent(SrcA, c) : c \in {"", "1"}}, d \in {<<>>, <<DeleteEvent(SrcA)>>},
        r \in {<<>>, <<RenameEvent(SrcA, RootB)>>} :
       d # r /\ Deliver(<<u>>, d, r)
  \/ \E tree \in MapTrees : TreeArrives(tree)

SpecMap == Init /\ [][NextMap]_vars

\* The session with remounts of the preview component.
NextRemount ==
  \/ Next
  \/ Unmount

SpecRemount == Init /\ [][NextRemount]_vars

\* The sync effect on its own: the sandbox is Ready, prevFilesRef and the map
\* of the current render are drawn from DeltaMaps, the effect runs and its
\* cycles run to their end.
InitDelta ==
  /\ variant \in Variants
  /\ isProduction = FALSE
  /\ prevFilesRef \in DeltaMaps
  /\ filesMap \in DeltaMaps
  /\ fs = prevFilesRef
  /\ filesRef = 1
  /\ fileTree = <<>>
  /\ activeFile = <<>> /\ fetches = {} /\ nFetches = 0
  /\ lastReceivedFile = <<>> /\ lastDeletedPath = <<>> /\ lastRenamedFile = <<>>
  /\ prevLastReceivedFileRef = <<>>
  /\ prevLastDeletedPathRef = <<>>
  /\ prevLastRenamedFileRef = <<>>
  /\ terminalError = <<>>
  /\ webContainerInstance = TRUE
  /\ serverUrl = TRUE
  /\ isSetupComplete = TRUE
  /\ mounted = TRUE
  /\ setupError = NoError
  /\ currentStep = "ready"
  /\ setupStartedRef = TRUE
  /\ errorBuffer = <<>>
  /\ errorTimeout = 0
  /\ burst = <<>>
  /\ initialLoadCompleteRef = FALSE
  /\ stepTimers = 0
  /\ attempts = <<>>
  /\ syncs = <<>>
  /\ nodeModules = TRUE
  /\ serverSpawned = TRUE
  /\ nEvents = 1
  /\ nChunks = 0
  /\ nStarted = 1
  /\ nFailed = 0
  /\ installFailed = FALSE
  /\ lastEffect = "events"

\* The sync effect runs for the current render.
SyncEffectRuns ==
  /\ Len(syncs) < MaxCycles
  /\ Step(Render(View, FALSE, TRUE))
  /\ UNCHANGED <<bvFrame, terminalError, boxVars, nFailed, installFailed>>

NextDelta ==
  \/ SyncEffectRuns
  \/ \E i \in 1..Len(syncs), path \in AllPaths, ok \in BOOLEAN : RmSettle(i, path, ok)
  \/ \E i \in 1..Len(syncs), path \in AllPaths, ok \in BOOLEAN : MkdirSettle(i, path, ok)
  \/ \E i \in 1..Len(syncs), path \in AllPaths, ok \in BOOLEAN : WriteSettle(i, path, ok)

SpecDelta == InitDelta /\ [][NextDelta]_vars

\* Every sandbox call that is awaited settles, and its continuation runs.
SpecDeltaFair == SpecDelta /\ WF_vars(NextDelta)

\* The scanner on its own: the dev server of a Ready session writes output.
InitScan ==
  /\ variant \in Variants
  /\ isProduction = FALSE
  /\ filesMap = [p \in {Manifest} |-> "1"]
  /\ prevFilesRef = filesMap
  /\ fs = filesMap
  /\ filesRef = 1
  /\ fileTree = <<>>
  /\ activeFile = <<>> /\ fetches = {} /\ nFetches = 0
  /\ lastReceivedFile = <<>> /\ lastDeletedPath = <<>> /\ lastRenamedFile = <<>>
  /\ prevLastReceivedFileRef = <<>>
  /\ prevLastDeletedPathRef = <<>>
  /\ prevLastRenamedFileRef = <<>>
  /\ terminalError = <<>>
  /\ webContainerInstance = TRUE
  /\ serverUrl \in BOOLEAN
  /\ isSetupComplete = TRUE
  /\ mounted = TRUE
  /\ setupError = NoError
  /\ currentStep = "ready"
  /\ setupStartedRef = TRUE
  /\ errorBuffer = <<>>
  /\ errorTimeout = 0
  /\ burst = <<>>
  /\ initialLoadCompleteRef = FALSE
  /\ stepTimers = 0
  /\ attempts = <<>>
  /\ syncs = <<>>
  /\ nodeModules = TRUE
  /\ serverSpawned = TRUE
  /\ nEvents = 1
  /\ nChunks = 0
  /\ nStarted = 1
  /\ nFailed = 0
  /\ installFailed = FALSE
  /\ lastEffect = "tree"

NextScan ==
  \/ \E len \in ChunkLens, marker \in BOOLEAN : Output(len, marker, "none")
  \/ TimerFires

SpecScan == InitScan /\ [][NextScan]_vars

\* One bring-up attempt and the output of its processes: the preview component
\* has mounted with the manifest in its map and the sandbox booted, and
\* setupContainer awaits its readFile.
InitLog ==
  /\ variant \in Variants
  /\ isProduction \in BOOLEAN
  /\ filesMap = [p \in {Manifest} |-> "1"]
  /\ prevFilesRef = filesMap
  /\ fs = EmptyMap
  /\ filesRef = 1
  /\ fileTree = <<>>
  /\ activeFile = <<>> /\ fetches = {} /\ nFetches = 0
  /\ lastReceivedFile = <<>> /\ lastDeletedPath = <<>> /\ lastRenamedFile = <<>>
  /\ prevLastReceivedFileRef = <<>>
  /\ prevLastDeletedPathRef = <<>>
  /\ prevLastRenamedFileRef = <<>>
  /\ terminalError = <<>>
  /\ webContainerInstance = TRUE
  /\ serverUrl = FALSE
  /\ isSetupComplete = FALSE
  /\ mounted = TRUE
  /\ setupError = NoError
  /\ currentStep = "mounting"
  /\ setupStartedRef = TRUE
  /\ errorBuffer = <<>>
  /\ errorTimeout = 0
  /\ burst = <<>>
  /\ initialLoadCompleteRef = FALSE
  /\ stepTimers = 0
  /\ attempts = <<Attempt(filesMap)>>
  /\ syncs = <<>>
  /\ nodeModules = FALSE
  /\ serverSpawned = FALSE
  /\ nEvents = 1
  /\ nChunks = 0
  /\ nStarted = 1
  /\ nFailed = 0
  /\ installFailed = FALSE
  /\ lastEffect = "tree"

NextLog ==
  \/ \E i \in 1..Len(attempts) : ReadFileSettle(i)
  \/ \E i \in 1..Len(attempts), ok \in BOOLEAN : MountSettle(i, ok)
  \/ \E i \in 1..Len(attempts) : ReaddirSettle(i)
  \/ \E i \in 1..Len(attempts), ok \in BOOLEAN : SpawnInstallSettle(i, ok)
  \/ \E i \in 1..Len(attempts), code \in {0, 1}, leftovers \in BOOLEAN :
       InstallExit(i, code, leftovers)
  \/ \E i \in 1..Len(attempts), ok \in BOOLEAN : SpawnBuildSettle(i, ok)
  \/ \E i \in 1..Len(attempts), code \in {0, 1} : BuildExit(i, code)
  \/ \E i \in 1..Len(attempts), ok \in BOOLEAN : SpawnServerSettle(i, ok)
  \/ ServerReady
  \/ \E kind \in LogChunks : Output(8, kind[1], kind[2])
  \/ StepTimerFires
  \/ TimerFires

SpecLog == InitLog /\ [][NextLog]_vars

\* The sandbox survived: useWebContainer reports the URL of the server that is
\* already running while the setup-complete flag of the new page is still
\* false.  The files and node_modules of the earlier bring-up are in the sandbox.
InitFast ==
  /\ variant \in Variants
  /\ isProduction \in BOOLEAN
  /\ filesMap = EmptyMap
  /\ prevFilesRef = EmptyMap
  /\ fs = [p \in {FsPath(Manifest)} |-> "1"]
  /\ filesRef = 0
  /\ fileTree = <<>>
  /\ activeFile = <<>> /\ fetches = {} /\ nFetches = 0
  /\ lastReceivedFile = <<>> /\ lastDeletedPath = <<>> /\ lastRenamedFile = <<>>
  /\ prevLastReceivedFileRef = <<>>
  /\ prevLastDeletedPathRef = <<>>
  /\ prevLastRenamedFileRef = <<>>
  /\ terminalError = <<>>
  /\ webContainerInstance = FALSE
  /\ serverUrl = TRUE
  /\ isSetupComplete = FALSE
  /\ mounted = FALSE
  /\ setupError = NoError
  /\ currentStep = "mounting"
  /\ setupStartedRef = FALSE
  /\ errorBuffer = <<>>
  /\ errorTimeout = 0
  /\ burst = <<>>
  /\ initialLoadCompleteRef = FALSE
  /\ stepTimers = 0
  /\ attempts = <<>>
  /\ syncs = <<>>
  /\ nodeModules = TRUE
  /\ serverSpawned = TRUE
  /\ nEvents = 0
  /\ nChunks = 0
  /\ nStarted = 0
  /\ nFailed = 0
  /\ installFailed = FALSE
  /\ lastEffect = "none"

NextFast ==
  \/ \E e \in LiveUpdates : Deliver(<<e>>, <<>>, <<>>)
  \/ \E e \in LiveDeletes : Deliver(<<>>, <<e>>, <<>>)
  \/ \E tree \in LiveTrees : TreeArrives(tree)
  \/ Boot
  \/ MountPreview
  \/ \E i \in 1..Len(syncs), path \in AllPaths, ok \in BOOLEAN : RmSettle(i, path, ok)
  \/ \E i \in 1..Len(syncs), path \in AllPaths, ok \in BOOLEAN : MkdirSettle(i, path, ok)
  \/ \E i \in 1..Len(syncs), path \in AllPaths, ok \in BOOLEAN : WriteSettle(i, path, ok)

SpecFast == InitFast /\ [][NextFast]_vars

\* The editor side alone: the connection comes up, trees arrive, the user opens
\* files and the backend answers the content requests.  The sandbox has not
\* booted, so the preview component's effects do nothing.
NextFetch ==
  \/ MountPreview
  \/ \E tree \in MapTrees : TreeArrives(tree)
  \/ \E path \in {SrcA, RootB} : SelectFile(path)
  \/ \E path \in {SrcA, RootB}, content \in {"", "1"} : FetchResponds(path, content)

SpecFetch == Init /\ [][NextFetch]_vars

\* =================================================================== claims

\* C1: at most one bring-up attempt is in flight at any time, an attempt in
\* flight has the started flag set (so a trigger firing meanwhile returns before
\* any sandbox call), and every attempt but the failed ones is the single one
\* that is in flight or has completed.
C1_AtMostOneBringUp ==
  /\ Len(attempts) <= 1
  /\ attempts # <<>> => setupStartedRef
  /\ nStarted <= nFailed + 1

\* A file-map trigger has fired while an attempt was in flight: the attempt
\* still holds the map it started with, the component has a newer one.
C1_Witness ==
  /\ Len(attempts) = 1
  /\ HasManifest(filesMap)
  /\ attempts[1].files # filesMap
  /\ attempts[1].pc = "installExit"

\* C2: merging the tree snapshot that was merged last leaves filesMap equal by
\* key and value, keeps the same object, starts no sync cycle and changes
\* neither the sandbox filesystem nor the last-synced snapshot.
C2_MergeIdempotent ==
  [][(/\ lastEffect = "tree" /\ lastEffect' = "tree"
      /\ nEvents' = nEvents + 1
      /\ fileTree' = fileTree)
     => /\ filesMap' = filesMap
        /\ filesRef' = filesRef
        /\ UNCHANGED <<syncs, fs, prevFilesRef>>]_vars

\* The same tree has been merged twice after Ready: two deliveries, no slot
\* ever set, and the map object replaced once.
C2_Witness ==
  /\ isSetupComplete /\ webContainerInstance /\ mounted
  /\ nEvents = 2 /\ filesRef = 1 /\ lastEffect = "tree"
  /\ lastReceivedFile = <<>> /\ lastDeletedPath = <<>> /\ lastRenamedFile = <<>>
  /\ filesMap = Traverse(fileTree, EmptyMap)

\* C3: a rename event delivered alone whose oldPath is not a key of filesMap
\* leaves the map equal and keeps the same object.
C3_RenameAbsentNoOp ==
  [][(/\ lastRenamedFile' # lastRenamedFile
      /\ lastReceivedFile' = lastReceivedFile
      /\ lastDeletedPath' = lastDeletedPath
      /\ ~(lastRenamedFile'[1].oldPath \in DOMAIN filesMap))
     => filesMap' = filesMap /\ filesRef' = filesRef]_vars

\* A rename of an absent oldPath has been processed on a map that holds other
\* keys, and newPath is not a key.
C3_Witness ==
  /\ lastRenamedFile # <<>>
  /\ prevLastRenamedFileRef = lastRenamedFile
  /\ lastEffect = "events"
  /\ lastDeletedPath = <<>>
  /\ DOMAIN filesMap = {SrcA}
  /\ lastRenamedFile[1].oldPath = RootB
  /\ lastRenamedFile[1].newPath = Manifest

\* C4: the delta of a sync cycle is exactly: changed = the keys of the current
\* map that are absent from the last-synced snapshot or hold another value
\* there, with the current values; deleted = the keys of the snapshot absent
\* from the current map; a key with the same value in both is in neither.
\* Before {a:1, b:2}, after {a:1, c:3} gives changed {c:3}, deleted {b}.
ExampleBefore == [p \in {PathA, PathB} |-> IF p = PathA THEN "1" ELSE "2"]
ExampleAfter == [p \in {PathA, PathC} |-> IF p = PathA THEN "1" ELSE "3"]

C4_DeltaExact ==
  \A i \in 1..Len(syncs) :
    LET cycle == syncs[i]
        before == cycle.base
        after == cycle.files
    IN /\ DOMAIN cycle.changedFiles =
            {k \in DOMAIN after : ~(k \in DOMAIN before) \/ before[k] # after[k]}
       /\ \A k \in DOMAIN cycle.changedFiles : cycle.changedFiles[k] = after[k]
       /\ cycle.deletedFiles = DOMAIN before \ DOMAIN after
       /\ \A k \in DOMAIN before \cap DOMAIN after :
            before[k] = after[k]
              => ~(k \in DOMAIN cycle.changedFiles) /\ ~(k \in cycle.deletedFiles)
       /\ (before = ExampleBefore /\ after = ExampleAfter)
            => /\ cycle.changedFiles = [p \in {PathC} |-> "3"]
               /\ cycle.deletedFiles = {PathB}

\* The example's cycle has been started.
C4_Witness ==
  /\ Len(syncs) = 1
  /\ syncs[1].base = ExampleBefore
  /\ syncs[1].files = ExampleAfter
  /\ syncs[1].toDelete = {PathB}

\* C5: a chunk with a failure marker followed, before the debounce timer
\* elapses, by further chunks with or without a marker gives one report that
\* contains the text of all those chunks: at most one timer is pending, and the
\* buffer the pending timer will report holds every chunk fed since the timer
\* was armed, whole (stated for output that the buffer cap has not cut).
Contains(text, chunk) ==
  \E k \in 1..Len(text) :
    text[k].id = chunk.id /\ text[k].len = chunk.len /\ ~text[k].cut

C5_OneConsolidatedReport ==
  /\ errorTimeout <= 1
  /\ (errorTimeout > 0 /\ \A k \in 1..Len(errorBuffer) : ~errorBuffer[k].cut) =>
       \A k \in 1..Len(burst) : Contains(errorBuffer, burst[k])

\* C6: in a bring-up attempt the mount call is issued exactly when the check
\* finds no /package.json in the sandbox filesystem, and the install command is
\* spawned exactly when the check finds no node_modules in the sandbox root;
\* neither call is issued any other way.
C6_SkipExistingArtifacts ==
  [][\A i \in 1..Len(attempts) :
       Len(attempts') = Len(attempts) =>
         LET pc == attempts[i].pc
             next == attempts'[i].pc
         IN /\ (pc = "readFile" /\ next # pc) =>
                 /\ next \in {"mount", "readdir"}
                 /\ next = "mount" <=> ~(Manifest \in DOMAIN fs)
            /\ (pc = "readdir" /\ next # pc) =>
                 /\ next \in {"spawnInstall", "spawnBuild", "spawnDev"}
                 /\ next = "spawnInstall" <=> ~nodeModules
            /\ (next = "mount" /\ next # pc) => pc = "readFile"
            /\ (next = "spawnInstall" /\ next # pc) => pc = "readdir"]_vars

\* A second attempt has skipped both steps: the first one mounted, installed
\* and then failed, the second one is spawning the dev server.
C6_Witness ==
  /\ nStarted = 2 /\ nFailed = 1 /\ ~installFailed
  /\ Len(attempts) = 1
  /\ attempts[1].pc = "spawnDev"
  /\ Manifest \in DOMAIN fs /\ nodeModules

\* C7: after a bring-up that ran mount, install and start once and reached
\* Ready, a sync cycle triggered by an edit of the single path p writes p and
\* writes or deletes no other path.
C7_SingleEditOneWrite ==
  \A i \in 1..Len(syncs) :
    LET cycle == syncs[i]
    IN (/\ nStarted = 1 /\ nFailed = 0 /\ ~isProduction
        /\ Cardinality(cycle.trigger) = 1
        /\ cycle.trigger \subseteq DOMAIN cycle.files)
       => /\ DOMAIN cycle.changedFiles = cycle.trigger
          /\ cycle.deletedFiles = {}

\* C8: an install process that exits with code 1 ends the attempt with the
\* failure recorded and the started flag reset; the next change of the file map
\* starts a fresh attempt at the mounting step; and no attempt after the failed
\* install issues mount, the sandbox filesystem still holding the manifest.
C8_InstallFailureRetry ==
  [][/\ (~installFailed /\ installFailed') =>
          /\ setupError' = <<"install">>
          /\ ~setupStartedRef'
          /\ attempts' = <<>>
     /\ (/\ installFailed /\ attempts = <<>> /\ ~isSetupComplete /\ ~serverUrl
         /\ mounted /\ webContainerInstance
         /\ filesRef' # filesRef /\ HasManifest(filesMap')) =>
          /\ Len(attempts') = 1
          /\ attempts'[1].pc = "readFile"
          /\ attempts'[1].files = filesMap'
          /\ currentStep' = "mounting"
          /\ setupStartedRef'
          /\ setupError' = NoError
     /\ installFailed' =>
          /\ Manifest \in DOMAIN fs'
          /\ \A i \in 1..Len(attempts') : attempts'[i].pc # "mount"]_vars

\* A change of the map after the failed install has started the second attempt,
\* which has passed the manifest check without mounting.
C8_Witness ==
  /\ installFailed /\ nStarted = 2 /\ nFailed = 1
  /\ filesRef = 2
  /\ Len(attempts) = 1
  /\ attempts[1].files = filesMap
  /\ attempts[1].pc = "readdir"

\* C9: no two sync cycles overlap: at most one sync() is suspended at an await.
C9_NoOverlappingCycles == Len(syncs) <= 1

\* C10: no sync cycle runs while a bring-up attempt is in flight or before
\* Ready: a sync() call is suspended at a filesystem operation only when the
\* setup-complete flag is true and no attempt is in flight.
C10_NoSyncDuringBringUp ==
  syncs # <<>> => isSetupComplete /\ attempts = <<>>

\* C11: once Ready has been reached no mount, install, build or start call is
\* issued any more: while the setup-complete flag is true no bring-up attempt
\* starts and no attempt moves on to one of these calls.
BringUpCalls == {"mount", "spawnInstall", "spawnBuild", "spawnServe", "spawnDev"}

C11_NoCallAfterReady ==
  [][isSetupComplete =>
       /\ nStarted' = nStarted
       /\ Len(attempts') = Len(attempts) =>
            \A i \in 1..Len(attempts) :
              attempts'[i].pc \in BringUpCalls => attempts'[i].pc = attempts[i].pc]_vars

C13_NoReprocessing ==
  [][(lastEffect' = "events" /\ nEvents' = nEvents + 1) =>
       /\ (lastDeletedPath' = lastDeletedPath /\ lastRenamedFile' = lastRenamedFile) =>
            filesMap' = Upsert(filesMap, lastReceivedFile'[1].path,
                               lastReceivedFile'[1].content)
       /\ (lastReceivedFile' = lastReceivedFile /\ lastRenamedFile' = lastRenamedFile) =>
            filesMap' = Remove(filesMap, lastDeletedPath'[1].path)
       /\ (lastReceivedFile' = lastReceivedFile /\ lastDeletedPath' = lastDeletedPath) =>
            \A p \in (DOMAIN filesMap \cup DOMAIN filesMap')
                       \ {lastRenamedFile'[1].oldPath, lastRenamedFile'[1].newPath} :
              Lookup(filesMap', p) = Lookup(filesMap, p)]_vars

\* Deleted{src/a.js} was processed, then Updated{src/a.js, c} arrived: the
\* deleted slot still holds its event and src/a.js is a key of the map.
C13_Witness ==
  /\ nEvents = 2 /\ lastEffect = "events"
  /\ lastDeletedPath # <<>> /\ lastDeletedPath[1].path = SrcA
  /\ prevLastDeletedPathRef = lastDeletedPath
  /\ lastReceivedFile # <<>> /\ lastReceivedFile[1].path = SrcA
  /\ lastRenamedFile = <<>>
  /\ filesMap = [p \in {SrcA} |-> "1"]

\* C14: a rename event delivered alone whose oldPath is a key of the map,
\* whatever content it holds, moves the value: afterwards newPath holds the
\* content oldPath had and oldPath is not a key (oldPath and newPath distinct).
C14_RenameMovesValue ==
  [][(/\ lastRenamedFile' # lastRenamedFile
      /\ lastReceivedFile' = lastReceivedFile
      /\ lastDeletedPath' = lastDeletedPath
      /\ lastRenamedFile'[1].oldPath \in DOMAIN filesMap
      /\ lastRenamedFile'[1].oldPath # lastRenamedFile'[1].newPath)
     => /\ lastRenamedFile'[1].newPath \in DOMAIN filesMap'
        /\ filesMap'[lastRenamedFile'[1].newPath] = filesMap[lastRenamedFile'[1].oldPath]
        /\ ~(lastRenamedFile'[1].oldPath \in DOMAIN filesMap')]_vars

\* C15: an update event delivered alone sets map[path] = content, a delete
\* event delivered alone leaves path out of the map (removing it when present,
\* changing no content when absent), and in both cases every other key keeps
\* its value.
C15_UpsertDeleteFrame ==
  [][(lastEffect' = "events" /\ nEvents' = nEvents + 1 /\ lastRenamedFile' = lastRenamedFile) =>
       /\ (lastReceivedFile' # lastReceivedFile /\ lastDeletedPath' = lastDeletedPath) =>
            /\ Lookup(filesMap', lastReceivedFile'[1].path) = <<lastReceivedFile'[1].content>>
            /\ \A p \in (DOMAIN filesMap \cup DOMAIN filesMap') \ {lastReceivedFile'[1].path} :
                 Lookup(filesMap', p) = Lookup(filesMap, p)
       /\ (lastDeletedPath' # lastDeletedPath /\ lastReceivedFile' = lastReceivedFile) =>
            /\ Lookup(filesMap', lastDeletedPath'[1].path) = <<>>
            /\ \A p \in (DOMAIN filesMap \cup DOMAIN filesMap') \ {lastDeletedPath'[1].path} :
                 Lookup(filesMap', p) = Lookup(filesMap, p)]_vars

\* An update of src/a.js has been applied to a map that held b.js, and both
\* keys are there.
C15_Witness ==
  /\ nEvents = 2 /\ lastEffect = "events"
  /\ lastReceivedFile # <<>> /\ lastReceivedFile[1].path = SrcA
  /\ lastDeletedPath = <<>> /\ lastRenamedFile = <<>>
  /\ DOMAIN filesMap = {SrcA, RootB}
  /\ filesMap[SrcA] = lastReceivedFile[1].content

\* C16: after a full-snapshot merge, for every file node of the tree at any
\* depth whose content is present, the empty string included, the map holds the
\* node's content at the node's path.
RECURSIVE NodesOf(_)
NodesOf(nodes) ==
  IF nodes = <<>> THEN {}
  ELSE {nodes[1]} \cup NodesOf(nodes[1].children) \cup NodesOf(Tail(nodes))

C16_MergeHoldsTreeContent ==
  lastEffect = "tree" =>
    \A node \in NodesOf(fileTree) :
      (node.type = "file" /\ node.content # <<>>) =>
        Lookup(filesMap, node.path) = node.content

\* C17: the last-synced snapshot is replaced only by the step that settles the
\* last operation of a cycle's batch, resolved or rejected, and then by the map
\* that triggered that cycle; no other step of a cycle changes it.
C17_SnapshotAfterBatch ==
  [][(mounted /\ mounted') =>
       IF Len(syncs') < Len(syncs)
       THEN \E i \in 1..Len(syncs) :
              /\ syncs' = RemoveAt(syncs, i)
              /\ Cardinality(syncs[i].toDelete) + Cardinality(syncs[i].toWrite) = 1
              /\ syncs[i].live => prevFilesRef' = syncs[i].files
       ELSE prevFilesRef' = prevFilesRef]_vars

\* A cycle has ended with the snapshot replaced although an operation of its
\* batch failed: the sandbox filesystem differs from the snapshot.
C17_Witness ==
  /\ syncs = <<>>
  /\ prevFilesRef = filesMap
  /\ fs # filesMap
  /\ nEvents = 1 /\ nStarted = 1 /\ isSetupComplete

\* C18: in a sync cycle a call that fails affects its own path only: a step
\* settles at most one path of the batch, resolved or rejected, every other
\* path stays pending until its own call settles, the cycle ends only with its
\* last path, and every cycle ends.
C18_FailureIsPerPath ==
  /\ [][IF Len(syncs') < Len(syncs)
        THEN \E i \in 1..Len(syncs) :
               /\ syncs' = RemoveAt(syncs, i)
               /\ Cardinality(syncs[i].toDelete \cup syncs[i].toWrite) = 1
        ELSE \A i \in 1..Len(syncs) :
               LET pending == syncs[i].toDelete \cup syncs[i].toWrite
                   left == syncs'[i].toDelete \cup syncs'[i].toWrite
               IN left \subseteq pending /\ Cardinality(pending \ left) <= 1]_vars
  /\ [](syncs # <<>> => <>(syncs = <<>>))

\* An rm of the batch has failed (the deleted path is still in the sandbox
\* filesystem once all deletions have settled) and the writes are going on.
C18_Witness ==
  /\ Len(syncs) = 1
  /\ syncs[1].toDelete = {}
  /\ \E p \in syncs[1].deletedFiles : p \in DOMAIN fs
  /\ Cardinality(syncs[1].toWrite) = 2

\* C19: an attempt that fails (install or build exits with a non-zero code, or
\* mount or a spawn rejects) ends there: its message is recorded in setupError,
\* it issues no further call and spawns no server, it does not set the
\* setup-complete flag, the started flag is reset, and the sandbox instance and
\* the component stay as they are; the flag is set only by a step that is not a
\* failure.
C19_FailureEndsAttempt ==
  [][/\ nFailed' # nFailed =>
          /\ nFailed' = nFailed + 1
          /\ \E i \in 1..Len(attempts) :
               /\ attempts' = RemoveAt(attempts, i)
               /\ attempts[i].pc = "installExit" => setupError' = <<"install">>
               /\ attempts[i].pc = "buildExit" => setupError' = <<"build">>
               /\ attempts[i].pc = "mount" => setupError' = <<"mount">>
          /\ setupError' # NoError
          /\ ~setupStartedRef'
          /\ isSetupComplete' = isSetupComplete
          /\ serverSpawned' = serverSpawned
          /\ webContainerInstance' /\ mounted'
     /\ (isSetupComplete' /\ ~isSetupComplete) => nFailed' = nFailed]_vars

\* A production build has exited with a non-zero code after a successful
\* install: the message is recorded, nothing is in flight, no server was
\* spawned and the session is not Ready.
C19_Witness ==
  /\ setupError = <<"build">>
  /\ attempts = <<>> /\ ~setupStartedRef
  /\ nodeModules /\ ~serverSpawned /\ ~isSetupComplete
  /\ webContainerInstance /\ mounted
  /\ nFailed = 1


\* C20: while a bring-up attempt of the mounted component is in flight the
\* reported phase is one of mounting, installing, building, starting, ready, it
\* does not move backward in that order from one step to the next, and it is
\* not ready before the attempt's last call, the spawn of the server, is issued.
Phases == <<"mounting", "installing", "building", "starting", "ready">>

PhaseRank(step) ==
  IF \E k \in 1..Len(Phases) : Phases[k] = step
  THEN CHOOSE k \in 1..Len(Phases) : Phases[k] = step
  ELSE 0

InFlight == attempts # <<>> /\ \A i \in 1..Len(attempts) : attempts[i].live

C20_PhaseMovesForward ==
  [][(InFlight /\ InFlight' /\ nStarted' = nStarted) =>
       /\ PhaseRank(currentStep') > 0
       /\ PhaseRank(currentStep') >= PhaseRank(currentStep)
       /\ currentStep' = "ready" =>
            \A i \in 1..Len(attempts') : attempts'[i].pc \in {"spawnServe", "spawnDev"}]_vars

\* C20, the state it excludes: an attempt that has not issued its last call yet
\* while the reported phase is outside mounting, installing, building, starting.
C20_PhaseOfAttempt ==
  (InFlight /\ \A i \in 1..Len(attempts) : attempts[i].pc \notin {"spawnServe", "spawnDev"}) =>
    PhaseRank(currentStep) \in 1..4


\* C21: the calls of one attempt are issued in sequence.  While the install
\* spawn or its exit is awaited the mount has completed or was skipped (the
\* manifest is in the sandbox); once the build or start command is issued the
\* install has exited with 0 or was skipped with node_modules present; and the
\* static server is spawned only after the build exited with 0.
AfterMount == {"spawnInstall", "installExit", "spawnBuild", "buildExit", "spawnServe", "spawnDev"}
AfterInstall == {"spawnBuild", "buildExit", "spawnServe", "spawnDev"}

C21_CallsInSequence ==
  \A i \in 1..Len(attempts) :
    /\ attempts[i].pc \in AfterMount => FsPath(Manifest) \in DOMAIN fs
    /\ attempts[i].pc \in AfterInstall =>
         nodeModules /\ attempts[i].installExitCode \in {<<>>, <<0>>}
    /\ attempts[i].pc \in {"spawnInstall", "installExit"} =>
         attempts[i].installExitCode = <<>>
    /\ attempts[i].pc = "spawnServe" => isProduction /\ attempts[i].buildExitCode = <<0>>
    /\ attempts[i].pc # "spawnServe" => attempts[i].buildExitCode = <<>>

C21_Witness ==
  \E i \in 1..Len(attempts) :
    /\ attempts[i].pc = "spawnServe"
    /\ attempts[i].installExitCode = <<0>>
    /\ attempts[i].buildExitCode = <<0>>


\* C22: across remounts of the preview component one sequence of install, build
\* and start calls is issued per session: no two attempts are past their checks
\* at the same time, and no attempt issues such a call once the server of the
\* session has been spawned.
SpawnSteps == {"spawnInstall", "installExit", "spawnBuild", "buildExit", "spawnServe", "spawnDev"}

C22_OneSequenceAcrossRemounts ==
  /\ \A i, j \in 1..Len(attempts) :
       (attempts[i].pc \in SpawnSteps /\ attempts[j].pc \in SpawnSteps) => i = j
  /\ serverSpawned => \A i \in 1..Len(attempts) : attempts[i].pc \notin SpawnSteps


\* C23: a step that leaves the preview component mounted with a sandbox
\* instance and a known server URL, taken while setup is not complete and no
\* attempt is in flight, sets the setup-complete flag and issues nothing: no
\* attempt starts and the sandbox is not touched.
C23_FastPath ==
  [][(/\ mounted' /\ webContainerInstance' /\ serverUrl'
      /\ ~isSetupComplete /\ attempts = <<>> /\ ~setupStartedRef) =>
       /\ isSetupComplete'
       /\ attempts' = <<>> /\ nStarted' = nStarted /\ ~setupStartedRef'
       /\ setupError' = NoError
       /\ UNCHANGED <<fs, nodeModules, serverSpawned>>]_vars

C23_Witness ==
  /\ isSetupComplete /\ nStarted = 0 /\ serverUrl /\ mounted
  /\ currentStep = "ready" /\ attempts = <<>>


\* C24: under fair scheduling an attempt in flight either meets a failing call
\* or reaches Ready: from a state with an attempt in flight and f failures so
\* far, the setup-complete flag is eventually set unless a further call fails.
C24_EventuallyReady ==
  \A f \in 0..(MaxAttempts + 1) :
    (attempts # <<>> /\ nFailed = f) ~> (isSetupComplete \/ nFailed > f)

C24_Witness ==
  /\ isSetupComplete /\ currentStep = "ready" /\ ~isProduction
  /\ serverSpawned /\ nFailed = 0 /\ nStarted = 1


MarkerFed ==
  /\ nChunks' = nChunks + 1
  /\ burst' # <<>>
  /\ burst'[Len(burst')].id = nChunks' /\ burst'[Len(burst')].marker

ReportSent == errorTimeout' < errorTimeout /\ mounted'

C26_ScanFrame ==
  [][MarkerFed =>
       /\ UNCHANGED <<currentStep, setupStartedRef, isSetupComplete, setupError>>
       /\ nStarted' = nStarted /\ attempts' = attempts]_vars


\* C27: progress markers leave the bring-up state machine alone: the phase
\* shows ready only when bring-up has completed, and while an attempt is in
\* flight or has failed the phase is one of the bring-up's own.
C27_ProgressIsAdvisory ==
  /\ currentStep = "ready" => isSetupComplete
  /\ ~isSetupComplete => PhaseRank(currentStep) \in 1..4


\* C28: a step that leaves the active file's content in the map, the empty
\* string included, while the connection, the tree and the active file stay as
\* they are, issues no content request.
C28_NoFetchOnceCached ==
  [][(/\ activeFile # <<>> /\ activeFile' = activeFile
      /\ mounted' = mounted
      /\ fileTree' = fileTree /\ ~(nEvents' = nEvents + 1 /\ lastEffect' = "tree")
      /\ activeFile[1] \in DOMAIN filesMap') =>
       nFetches' = nFetches]_vars


\* C29: in a sync cycle a step settles one operation; a step that settles a
\* mkdir or a writeFile, or that ends the cycle on a write, is taken only when
\* no deletion of the batch is left, and such a step is the only one that puts
\* a changed file's content into the sandbox.
C29_DeletionsFirst ==
  [][\A i \in 1..Len(syncs) :
       LET cycle == syncs[i]
           left == IF Len(syncs') = Len(syncs) THEN syncs'[i].toDelete \cup syncs'[i].toWrite
                   ELSE {}
       IN (Len(syncs) = 1 /\ Len(syncs') <= 1 /\ syncs' # syncs) =>
            /\ Cardinality((cycle.toDelete \cup cycle.toWrite) \ left) <= 1
            /\ (cycle.toDelete # {}) =>
                 /\ Len(syncs') = 1 => /\ syncs'[1].toWrite = cycle.toWrite
                                       /\ syncs'[1].writing = cycle.writing
                 /\ \A p \in DOMAIN cycle.changedFiles :
                      Lookup(fs', FsPath(p)) = <<cycle.changedFiles[p]>> =>
                        Lookup(fs, FsPath(p)) = <<cycle.changedFiles[p]>>]_vars

C29_Witness ==
  /\ Len(syncs) = 1
  /\ syncs[1].deletedFiles # {} /\ syncs[1].toDelete = {}
  /\ syncs[1].toWrite # DOMAIN syncs[1].changedFiles /\ syncs[1].toWrite # {}


\* C30: at most one debounce timer is pending; the step in which it elapses
\* reports the buffer as it is and empties it, and the report shares no chunk
\* with the report before it.
C30_OneTimerOneReport ==
  [][/\ errorTimeout' <= 1
     /\ errorTimeout' < errorTimeout =>
          /\ terminalError' = <<errorBuffer>>
          /\ errorBuffer' = <<>>
          /\ terminalError # <<>> =>
               \A a \in 1..Len(terminalError[1]), b \in 1..Len(errorBuffer) :
                 terminalError[1][a].id < errorBuffer[b].id]_vars

C30_Witness ==
  /\ terminalError # <<>> /\ terminalError[1] # <<>>
  /\ errorTimeout = 1 /\ errorBuffer # <<>> /\ Len(burst) >= 2


\* ------------------------------------------------------------------ C31
\* The session in which every filesystem operation of a sync cycle resolves:
\* the steps of Next, the rejected fs.rm, fs.mkdir and fs.writeFile left out.
NextClean ==
  \/ \E e \in LiveUpdates : Deliver(<<e>>, <<>>, <<>>)
  \/ \E e \in LiveDeletes : Deliver(<<>>, <<e>>, <<>>)
  \/ \E tree \in LiveTrees : TreeArrives(tree)
  \/ Boot
  \/ MountPreview
  \/ Rerender
  \/ ServerReady
  \/ \E i \in 1..Len(attempts) : ReadFileSettle(i)
  \/ \E i \in 1..Len(attempts), ok \in BOOLEAN : MountSettle(i, ok)
  \/ \E i \in 1..Len(attempts) : ReaddirSettle(i)
  \/ \E i \in 1..Len(attempts), ok \in BOOLEAN : SpawnInstallSettle(i, ok)
  \/ \E i \in 1..Len(attempts), code \in {0, 1}, leftovers \in BOOLEAN :
       InstallExit(i, code, leftovers)
  \/ \E i \in 1..Len(attempts), ok \in BOOLEAN : SpawnBuildSettle(i, ok)
  \/ \E i \in 1..Len(attempts), code \in {0, 1} : BuildExit(i, code)
  \/ \E i \in 1..Len(attempts), ok \in BOOLEAN : SpawnServerSettle(i, ok)
  \/ \E i \in 1..Len(syncs), path \in AllPaths : RmSettle(i, path, TRUE)
  \/ \E i \in 1..Len(syncs), path \in AllPaths : MkdirSettle(i, path, TRUE)
  \/ \E i \in 1..Len(syncs), path \in AllPaths : WriteSettle(i, path, TRUE)
  \/ TimerFires

SpecClean == Init /\ [][NextClean]_vars

\* Ready, with no bring-up attempt and no sync cycle in flight.
Quiescent == mounted /\ isSetupComplete /\ attempts = <<>> /\ syncs = <<>>

\* C31: after Ready, once the map has stopped changing and every started sync
\* cycle has finished with no filesystem operation failing, the sandbox agrees
\* with the map: every key of the map holds the map's content in the sandbox,
\* and no file mounted or written by the controller is left at a path that is
\* absent from the map.
C31_SandboxAgreesWithMap ==
  Quiescent =>
    /\ \A p \in DOMAIN filesMap : Lookup(fs, FsPath(p)) = <<filesMap[p]>>
    /\ \A q \in DOMAIN fs : \E p \in DOMAIN filesMap : FsPath(p) = q


\* ------------------------------------------------------------------ C32
\* An attempt of the mounted instance reaches Ready in this step.
ReachesReady ==
  /\ mounted /\ ~isSetupComplete /\ isSetupComplete'
  /\ \E i \in 1..Len(attempts) :
       attempts[i].live /\ attempts[i].pc \in {"spawnServe", "spawnDev"}

\* The sandbox holds what mount wrote for the current map, and nothing else:
\* the map has not changed since the attempt that reaches Ready mounted it.
MountedMapUnchanged ==
  /\ \A i \in 1..Len(attempts) : attempts[i].files = filesMap
  /\ fs = Mounted(EmptyMap, filesMap)

\* C32: when Ready is reached and the map has not changed since it was
\* mounted, the last-synced snapshot equals the mounted map and the sync effect
\* of the Ready render starts no cycle: nothing is written or deleted.
C32_NoSyncAtReady ==
  [][ReachesReady /\ MountedMapUnchanged =>
       prevFilesRef' = filesMap /\ syncs' = <<>>]_vars


C34_RenameKeepsContent ==
  [][(/\ lastRenamedFile' # lastRenamedFile
      /\ lastReceivedFile' = lastReceivedFile
      /\ lastDeletedPath' = lastDeletedPath
      /\ Truthy(filesMap, lastRenamedFile'[1].oldPath))
     => Lookup(filesMap', lastRenamedFile'[1].newPath)
          = <<filesMap[lastRenamedFile'[1].oldPath]>>]_vars


\* ------------------------------------------------------------------ C35
\* The paths to which a tree snapshot gives content.
GivenContent(tree) ==
  {node.path : node \in {n \in NodesOf(tree) :
                           n.type = "file" /\ n.content # <<>> /\ n.content[1] # ""}}

\* C35: a full-snapshot merge never removes a key: every key of the map is a
\* key afterwards, and a key that the snapshot lacks, or holds without content,
\* keeps its value; the key set of the map shrinks only in a step that applies
\* a delete or a rename event.
C35_MergeKeepsKeys ==
  [][/\ fileTree' # fileTree \/ (lastEffect' = "tree" /\ nEvents' # nEvents) =>
          \A p \in DOMAIN filesMap :
            /\ p \in DOMAIN filesMap'
            /\ p \notin GivenContent(fileTree') => filesMap'[p] = filesMap[p]
     /\ ~(DOMAIN filesMap \subseteq DOMAIN filesMap') =>
          lastDeletedPath' # lastDeletedPath \/ lastRenamedFile' # lastRenamedFile]_vars

\* A snapshot that gives b.js content and src/a.js none has been merged into a
\* map that held src/a.js alone: src/a.js is still a key, holding the content
\* of its update event.
C35_Witness ==
  /\ lastEffect = "tree" /\ nEvents = 2
  /\ DOMAIN filesMap = {SrcA, RootB}
  /\ lastReceivedFile # <<>> /\ lastReceivedFile[1].path = SrcA
  /\ filesMap[SrcA] = lastReceivedFile[1].content
  /\ SrcA \notin GivenContent(fileTree)
  /\ RootB \in GivenContent(fileTree)


\* ------------------------------------------------------------------ C36
\* The spawn of the long-running process resolves in this step: an attempt that
\* awaited it has ended and no failure was counted.
ServerSpawnResolves ==
  /\ \E i \in 1..Len(attempts) : attempts[i].pc \in {"spawnServe", "spawnDev"}
  /\ Len(attempts') < Len(attempts)
  /\ nFailed' = nFailed

\* C36: across the failed attempts and retries of one component instance at
\* most one long-running process is spawned: the spawn resolves only while no
\* such process has been spawned, the attempt that spawned it ends in Ready,
\* Ready is never left, and no attempt starts after Ready.
C36_OneServerProcess ==
  [][/\ ServerSpawnResolves => ~serverSpawned /\ serverSpawned' /\ isSetupComplete'
     /\ isSetupComplete => isSetupComplete' /\ nStarted' = nStarted /\ attempts' = <<>>]_vars

\* A first attempt failed before its install step could fail, the retry spawned
\* the server and the session is Ready.
C36_Witness ==
  /\ isSetupComplete /\ serverSpawned /\ attempts = <<>>
  /\ nStarted = 2 /\ nFailed = 1 /\ ~installFailed
  /\ setupError = NoError


\* ------------------------------------------------------------------ C37
\* C37: when several slots carry a new event in one delivery, the events are
\* applied in the order update, delete, rename inside one map replacement: an
\* update of p delivered with a delete of p leaves p absent, and an update of p
\* with content c delivered with a rename of p to q leaves q holding c and p
\* absent.
C37_UpdateDeleteRename ==
  [][/\ (/\ lastReceivedFile' # lastReceivedFile
         /\ lastDeletedPath' # lastDeletedPath
         /\ lastRenamedFile' = lastRenamedFile
         /\ lastDeletedPath'[1].path = lastReceivedFile'[1].path) =>
          /\ lastReceivedFile'[1].path \notin DOMAIN filesMap'
          /\ filesRef' = filesRef + 1
     /\ (/\ lastReceivedFile' # lastReceivedFile
         /\ lastRenamedFile' # lastRenamedFile
         /\ lastDeletedPath' = lastDeletedPath
         /\ lastRenamedFile'[1].oldPath = lastReceivedFile'[1].path
         /\ lastRenamedFile'[1].newPath # lastRenamedFile'[1].oldPath) =>
          /\ Lookup(filesMap', lastRenamedFile'[1].newPath)
               = <<lastReceivedFile'[1].content>>
          /\ lastRenamedFile'[1].oldPath \notin DOMAIN filesMap'
          /\ filesRef' = filesRef + 1]_vars


\* ------------------------------------------------------------------ C38
\* C38: whenever the session is Ready (the setup-complete flag is true) no
\* setup error is recorded.
C38_ReadyHasNoError == isSetupComplete => setupError = NoError


\* ------------------------------------------------------------------ C39
\* C39: every error report the output scanner emits is non-empty and contains
\* the text of at least one chunk that matched a failure marker: the buffer
\* handed to onTerminalError holds a piece, whole or cut, of a matching chunk
\* fed since the timer was armed.
C39_ReportHoldsMarker ==
  [][ReportSent =>
       /\ errorBuffer # <<>>
       /\ \E j \in 1..Len(errorBuffer), k \in 1..Len(burst) :
            burst[k].marker /\ burst[k].id = errorBuffer[j].id]_vars

====
